---- MODULE Spec2Model ----
(***************************************************************************)
(* The mix engine of the hotspot editor/player (useAudioEngine) and the    *)
(* editor's hotspot click that auditions a clip.                           *)
(*                                                                         *)
(* Durations are in milliseconds.  A timer set with setTimeout(f, d) is a   *)
(* record whose field left counts the time until it is due; time does not  *)
(* advance past a due timer, and due timers run in the order they were     *)
(* created.  Time advances by the shortest delay the program uses (150 ms) *)
(* or up to the next deadline, whichever is sooner.                        *)
(* Control-plane calls are atomic (one event-loop task each) and may run   *)
(* at any time, also between two timers that are due at the same time.     *)
(***************************************************************************)
EXTENDS Integers, Sequences, FiniteSets, TLC

VARIABLES
    sources,    \* sourcesRef.current: the Map id -> node, in insertion order
    nodes,      \* the node objects that are still referenced or still sounding
    timers,     \* pending setTimeout callbacks (teardowns), in creation order
    ctx,        \* audioContextRef.current: "none", "suspended" or "running"
    device,     \* the audio output device, as the browser reports it
    selectedHotspotId,  \* EditorView state
    last,       \* the call that made the last step and the branch it took
    hotspots,   \* project.hotspots: the committed hotspots, in order
    globalChannels,  \* project.globalChannels: the ambient channels, in order
    isDrawing,  \* EditorView state: a draw gesture is under way
    currentPoints,  \* EditorView state: the candidate polygon of the gesture
    playingId,  \* PlayerView state: the hotspot the player has sounding
    previewingChannelId,  \* EditorView state: the channel being previewed
    previewTimer,  \* previewTimerRef.current: the pending auto-stop of the preview
    projects,   \* SoundMapApp state: the project list in memory
    stored,     \* the project list the server holds for the user
    saveTimer,  \* the pending debounce timer of the auto-save effect
    inflight,   \* the saveProjects calls that have not completed, oldest first
    backendAvailable,  \* api.ts: the cached result of checkHealth()
    isLoadingProjects,  \* SoundMapApp state: loadProjects has not completed
    poly1,      \* first argument of polygonsOverlap / polygon of the point test
    poly2,      \* second argument of polygonsOverlap
    point,      \* argument of isPointInPolygon
    answer      \* the value the geometry function returned, "none" before

\* the authoring document and the draw gesture
document == <<hotspots, globalChannels, isDrawing, currentPoints>>

\* the arguments and the result of a geometry call
geometry == <<poly1, poly2, point, answer>>

\* the channel preview of the editor
preview == <<previewingChannelId, previewTimer>>

\* the project list and its auto-save
saving == <<projects, stored, saveTimer, inflight, backendAvailable, isLoadingProjects>>

vars == <<sources, nodes, timers, ctx, device, selectedHotspotId, last,
          hotspots, globalChannels, isDrawing, currentPoints, playingId,
          poly1, poly2, point, answer, previewingChannelId, previewTimer,
          projects, stored, saveTimer, inflight, backendAvailable, isLoadingProjects>>

---------------------------------------------------------------------------
(* Bounds of the model *)

\* node objects alive at once (in the table, held by a timer, or sounding)
MaxNodes == 2
\* pending teardown timers
MaxTimers == 2

Ids == {"a", "b"}
\* coordinates run from 0 to GridMax; triangles are drawn from 0 to TriMax
GridMax == 3
TriMax == 2
\* points a draw gesture collects at most
MaxPoints == 6
NodeIds == 1..MaxNodes

---------------------------------------------------------------------------
(* Program constants, in milliseconds *)

\* settings.fadeIn ?? 0.3, settings.fadeOut ?? 0.3, node.fadeOutDuration || 0.3
DefaultFade == 300
\* setTimeout(..., duration * 1000 + 100)
StopMargin == 100
\* linearRampToValueAtTime(0, ctx.currentTime + 0.1) in stopAll
StopAllFade == 100
\* setTimeout(..., 150) in stopAll
StopAllDelay == 150
\* linearRampToValueAtTime(settings.volume, ctx.currentTime + 0.1) in updateSettings
UpdateRamp == 100

\* an absent (undefined) number in a settings object
Undef == -1
\* node.fadeOutTimer === undefined
NoTimer == 0
\* sourcesRef.current.get(id) === undefined
NoNode == 0
\* selectedHotspotId === null
NoId == "none"

---------------------------------------------------------------------------
(* AudioSettings: volume in tenths, pan in -1..1, fades in milliseconds *)

\* Two settings objects that differ in every field
SettingsA == [volume |-> 10, pan |-> 0, loop |-> FALSE, fadeIn |-> 50, fadeOut |-> 200]
SettingsB == [volume |-> 5, pan |-> 1, loop |-> TRUE, fadeIn |-> 100, fadeOut |-> 50]

Settings == {SettingsA, SettingsB}

\* x ?? 0.3
OrDefault(x) == IF x = Undef THEN DefaultFade ELSE x

\* x || 0.3
OrFalsy(x) == IF x = 0 THEN DefaultFade ELSE x

---------------------------------------------------------------------------
(* The voice table *)

\* sourcesRef.current.delete(id), on a table given as a sequence
Delete(tbl, id) == SelectSeq(tbl, LAMBDA e : e.id # id)

\* clearTimeout(h)
ClearTimeout(tms, h) == SelectSeq(tms, LAMBDA t : t.h # h)

\* A node object is kept while the table or a pending timer still refers to it,
\* or while its audio element is still playing; the rest is garbage.  Of an
\* object that has left the table only the audio element and the id its
\* callbacks captured are ever used again (by a pending teardown or by onended):
\* the fields that only the table's readers use are cleared, and so are the
\* loop flags of an element that no longer plays.
Forget(node) ==
    [node EXCEPT !.ramp = [to |-> 0, dur |-> 0],
                 !.pan = 0,
                 !.fadeOutDuration = 0,
                 !.fadeOutTimer = NoTimer,
                 !.loop = IF node.audio = "playing" THEN @ ELSE FALSE,
                 !.settingsLoop = IF node.audio = "playing" THEN @ ELSE FALSE]

Collect(nds, tbl, tms) ==
    LET inTable(n) == \E i \in 1..Len(tbl) : tbl[i].node = n
        keep == { n \in DOMAIN nds :
                    \/ inTable(n)
                    \/ \E i \in 1..Len(tms) : tms[i].node = n
                    \/ nds[n].audio = "playing" }
    IN  [n \in keep |-> IF inTable(n) THEN nds[n] ELSE Forget(nds[n])]

---------------------------------------------------------------------------
(* The engine's operations, as functions of the engine state                *)
(* e = [sources, nodes, timers, ctx]; each returns the state after the call *)
(* and the branch the call took.                                            *)

\* getContext(): the context it leaves in audioContextRef.  A context made
\* while playback is blocked starts suspended; resume() takes effect once the
\* device is available.
GetContext(c, d) ==
    IF c = "none" THEN (IF d = "blocked" THEN "suspended" ELSE "running")
    ELSE IF c = "suspended" /\ d = "ok" THEN "running"
    ELSE c

\* new AudioContext() throws when there is no output device
ContextThrows(c, d) == c = "none" /\ d = "absent"

\* audio.play() resolves only when the device can play
CanStart(d) == d = "ok"

\* the object play() registers, lines 206-229
NewNode(id, s, d) ==
    [ id              |-> id,
      audio           |-> IF CanStart(d) THEN "playing" ELSE "failed",
      loop            |-> s.loop,
      settingsLoop    |-> s.loop,
      pan             |-> s.pan,
      ramp            |-> [to |-> s.volume, dur |-> OrDefault(s.fadeIn)],
      fadeOutDuration |-> OrDefault(s.fadeOut),
      fadeOutTimer    |-> NoTimer ]

\* play() on an existing node whose teardown is pending, lines 194-201
Revive(node, s) ==
    [node EXCEPT !.fadeOutDuration = OrDefault(s.fadeOut),
                 !.fadeOutTimer = NoTimer,
                 !.ramp = [to |-> s.volume, dur |-> OrDefault(s.fadeIn)]]

\* Not the code's: a play() that also restarts the gain ramp of a node with no
\* recorded teardown.  C3 must tell it from Replay.
ReplayRestarts(node, s) ==
    [node EXCEPT !.fadeOutDuration = OrDefault(s.fadeOut),
                 !.ramp = [to |-> s.volume, dur |-> OrDefault(s.fadeIn)]]

\* play() on an existing node with no recorded teardown, lines 194, 203
Replay(node, s) ==
    [node EXCEPT !.fadeOutDuration = OrDefault(s.fadeOut)]

\* the slot a new node object takes
FreeSlots(nds) == NodeIds \ DOMAIN nds
NewSlot(nds) == CHOOSE n \in FreeSlots(nds) : \A m \in FreeSlots(nds) : n <= m

\* f extended or overwritten at n
Put(f, n, v) == [m \in DOMAIN f \cup {n} |-> IF m = n THEN v ELSE f[m]]

\* sourcesRef.current.get(id)
LookUp(e, id) ==
    IF \E i \in 1..Len(e.sources) : e.sources[i].id = id
    THEN e.sources[CHOOSE i \in 1..Len(e.sources) : e.sources[i].id = id].node
    ELSE NoNode

\* play(id, url, settings)
DoPlay(e, id, s, d) ==
    IF ContextThrows(e.ctx, d)
    THEN [e EXCEPT !.branch = "threw"]
    ELSE
    LET c == GetContext(e.ctx, d)
        n == LookUp(e, id)
    IN  IF n # NoNode
        THEN IF e.nodes[n].fadeOutTimer # NoTimer
             THEN [e EXCEPT !.ctx = c,
                            !.nodes[n] = Revive(e.nodes[n], s),
                            !.timers = ClearTimeout(e.timers, e.nodes[n].fadeOutTimer),
                            !.branch = "revive"]
             ELSE [e EXCEPT !.ctx = c,
                            !.nodes[n] = Replay(e.nodes[n], s),
                            !.branch = "noop"]
        ELSE LET m == NewSlot(e.nodes)
             IN  [e EXCEPT !.ctx = c,
                           !.nodes = Put(e.nodes, m, NewNode(id, s, d)),
                           !.sources = Append(e.sources, [id |-> id, node |-> m]),
                           !.branch = "create"]

\* setTimeout's return value in stop().  A node has at most one pending timer
\* whose handle it holds, so the handle is named after the node.
Handle(n) == n

\* the timer stop() sets, lines 243-251
StopTimer(h, n, id, duration) ==
    [h |-> h, node |-> n, id |-> id, left |-> duration + StopMargin]

\* the node after stop() has started its fade, lines 237-253
StopNode(node, h) ==
    [node EXCEPT !.ramp = [to |-> 0, dur |-> OrFalsy(node.fadeOutDuration)],
                 !.fadeOutTimer = h]

\* Not the code's: a stop() that fetches the context before it looks the id
\* up.  C9 must tell it from DoStop.
DoStopEager(e, id, d) ==
    LET n == LookUp(e, id)
        c == GetContext(e.ctx, d)
    IN  IF n = NoNode THEN [e EXCEPT !.ctx = c, !.branch = "absent"]
        ELSE IF e.nodes[n].fadeOutTimer # NoTimer
        THEN [e EXCEPT !.ctx = c, !.branch = "fading"]
        ELSE LET h == Handle(n)
                 duration == OrFalsy(e.nodes[n].fadeOutDuration)
             IN  [e EXCEPT !.ctx = c,
                           !.nodes[n] = StopNode(e.nodes[n], h),
                           !.timers = Append(e.timers, StopTimer(h, n, id, duration)),
                           !.branch = "fade"]

\* stop(id)
DoStop(e, id, d) ==
    LET n == LookUp(e, id)
    IN  IF n = NoNode THEN [e EXCEPT !.branch = "absent"]
        ELSE IF e.nodes[n].fadeOutTimer # NoTimer THEN [e EXCEPT !.branch = "fading"]
        ELSE LET h == Handle(n)
                 duration == OrFalsy(e.nodes[n].fadeOutDuration)
             IN  [e EXCEPT !.ctx = GetContext(e.ctx, d),
                           !.nodes[n] = StopNode(e.nodes[n], h),
                           !.timers = Append(e.timers, StopTimer(h, n, id, duration)),
                           !.branch = "fade"]

\* the timer stopAll() sets for one node, lines 267-275; its handle is dropped
StopAllTimer(n, id) ==
    [h |-> NoTimer, node |-> n, id |-> id, left |-> StopAllDelay]

\* the node after stopAll() has started its fade, lines 263-265
StopAllNode(node) ==
    [node EXCEPT !.ramp = [to |-> 0, dur |-> StopAllFade]]

\* stopAll(): the forEach over the table, from entry i on
RECURSIVE StopAllFrom(_, _, _)
StopAllFrom(e, i, d) ==
    IF i > Len(e.sources) THEN e
    ELSE LET n == e.sources[i].node
             id == e.sources[i].id
         IN  IF e.nodes[n].fadeOutTimer # NoTimer
             THEN StopAllFrom(e, i + 1, d)
             ELSE StopAllFrom(
                    [e EXCEPT !.ctx = GetContext(e.ctx, d),
                              !.nodes[n] = StopAllNode(e.nodes[n]),
                              !.timers = Append(e.timers, StopAllTimer(n, id))],
                    i + 1, d)

DoStopAll(e, d) == [StopAllFrom(e, 1, d) EXCEPT !.branch = "done"]

\* updateSettings() on a node with no recorded teardown, lines 284-292
Update(node, s) ==
    [node EXCEPT !.fadeOutDuration = OrDefault(s.fadeOut),
                 !.ramp = [to |-> s.volume, dur |-> UpdateRamp],
                 !.pan = s.pan,
                 !.loop = s.loop]

\* updateSettings() on a node whose teardown is pending, line 284
UpdateFading(node, s) ==
    [node EXCEPT !.fadeOutDuration = OrDefault(s.fadeOut)]

\* updateSettings(id, settings)
DoUpdateSettings(e, id, s, d) ==
    LET n == LookUp(e, id)
    IN  IF n = NoNode THEN [e EXCEPT !.branch = "absent"]
        ELSE IF e.nodes[n].fadeOutTimer # NoTimer
        THEN [e EXCEPT !.nodes[n] = UpdateFading(e.nodes[n], s), !.branch = "fading"]
        ELSE [e EXCEPT !.ctx = GetContext(e.ctx, d),
                      !.nodes[n] = Update(e.nodes[n], s),
                      !.branch = "applied"]

\* Not the code's: a teardown callback that returns without pausing the
\* element or deleting the entry.  C4 must tell it from Teardown.
TeardownKeepsVoice(e, i) ==
    [e EXCEPT !.timers = SubSeq(e.timers, 1, i - 1) \o SubSeq(e.timers, i + 1, Len(e.timers))]

\* the teardown callback of stop() and stopAll(), lines 244-250 and 268-274,
\* run for the i-th pending timer: the element is paused and its chain
\* disconnected ("paused"), and the table's entry for the id is deleted
Teardown(e, i) ==
    [e EXCEPT !.nodes[e.timers[i].node].audio = "paused",
              !.sources = Delete(e.sources, e.timers[i].id),
              !.timers = SubSeq(e.timers, 1, i - 1) \o SubSeq(e.timers, i + 1, Len(e.timers))]

\* audio.onended, lines 225-229
Ended(e, n) ==
    [e EXCEPT !.nodes[n].audio = "ended",
              !.sources = IF e.nodes[n].settingsLoop THEN @ ELSE Delete(@, e.nodes[n].id)]

---------------------------------------------------------------------------
(* Geometry: polygonsOverlap and its helpers.  Coordinates are integers;    *)
(* polygons are sequences of points, closed from the last point to the      *)
(* first.                                                                   *)

\* a Point
Pt(x, y) == [x |-> x, y |-> y]

\* a < num / d, for d # 0.  On integer coordinates the quotient the code
\* computes in floating point is exact when it is an integer and is off from
\* every integer by at least 1/|d| otherwise, so the comparison with the
\* integer a comes out as in exact arithmetic.
LessThanQuotient(a, num, d) ==
    IF d > 0 THEN a * d < num ELSE a * d > num

\* Not the code's: an edge test that takes both ends of the edge's y range,
\* so that a vertex on the ray counts for both of its edges.  C15 must tell
\* it from Intersect.
IntersectClosed(p, pi, pj) ==
    /\ \/ pi.y >= p.y /\ pj.y <= p.y
       \/ pj.y >= p.y /\ pi.y <= p.y
    /\ pi.y # pj.y
    /\ LessThanQuotient(p.x - pi.x, (pj.x - pi.x) * (p.y - pi.y), pj.y - pi.y)

\* the edge test of isPointInPolygon for the edge from pj to pi
Intersect(p, pi, pj) ==
    /\ (pi.y > p.y) # (pj.y > p.y)
    /\ LessThanQuotient(p.x - pi.x, (pj.x - pi.x) * (p.y - pi.y), pj.y - pi.y)

\* the index j the loop pairs with i: the one before, the last for the first
Before(i, n) == IF i = 1 THEN n ELSE i - 1

\* isPointInPolygon(point, polygon): inside is flipped once per edge that
\* passes the edge test
isPointInPolygon(p, polygon) ==
    LET n == Len(polygon)
        hit == { i \in 1..n : Intersect(p, polygon[i], polygon[Before(i, n)]) }
    IN  Cardinality(hit) % 2 = 1

\* ccw(a, b, c)
ccw(a, b, c) == (c.y - a.y) * (b.x - a.x) > (b.y - a.y) * (c.x - a.x)

\* Not the code's: a segment test that only asks whether p1 and p2 lie on
\* different sides of the line through p3 and p4.  C14 must tell it from
\* doSegmentsIntersect.
doSegmentsIntersectOneSided(p1, p2, p3, p4) ==
    ccw(p1, p3, p4) # ccw(p2, p3, p4)

\* doSegmentsIntersect(p1, p2, p3, p4)
doSegmentsIntersect(p1, p2, p3, p4) ==
    /\ ccw(p1, p3, p4) # ccw(p2, p3, p4)
    /\ ccw(p1, p2, p3) # ccw(p1, p2, p4)

\* the index after i, (i + 1) % n on indices from 0
After(i, n) == (i % n) + 1

\* the last loop of polygonsOverlap: some edge of a meets some edge of b
EdgesIntersect(a, b) ==
    \E i \in 1..Len(a), j \in 1..Len(b) :
        doSegmentsIntersect(a[i], a[After(i, Len(a))], b[j], b[After(j, Len(b))])

\* Not the code's: polygonsOverlap without its second loop (the vertices of b
\* are not tested against a).  C12 must tell it from polygonsOverlap.
polygonsOverlapOneWay(a, b) ==
    \/ \E i \in 1..Len(a) : isPointInPolygon(a[i], b)
    \/ EdgesIntersect(a, b)

\* polygonsOverlap(poly1, poly2)
polygonsOverlap(a, b) ==
    \/ \E i \in 1..Len(a) : isPointInPolygon(a[i], b)
    \/ \E j \in 1..Len(b) : isPointInPolygon(b[j], a)
    \/ EdgesIntersect(a, b)

---------------------------------------------------------------------------
(* Plane geometry the properties are stated in, in exact integer arithmetic *)

\* twice the signed area of the triangle a, b, c
Orient(a, b, c) == (b.x - a.x) * (c.y - a.y) - (b.y - a.y) * (c.x - a.x)

\* the segments p1 p2 and p3 p4 cross properly: each has its end points
\* strictly on opposite sides of the other
ProperCross(p1, p2, p3, p4) ==
    /\ Orient(p3, p4, p1) * Orient(p3, p4, p2) < 0
    /\ Orient(p1, p2, p3) * Orient(p1, p2, p4) < 0

\* some edge of a properly crosses some edge of b
EdgesCross(a, b) ==
    \E i \in 1..Len(a), j \in 1..Len(b) :
        ProperCross(a[i], a[After(i, Len(a))], b[j], b[After(j, Len(b))])

\* p lies on the closed segment from a to b
OnSegment(p, a, b) ==
    /\ Orient(a, b, p) = 0
    /\ (p.x - a.x) * (p.x - b.x) <= 0
    /\ (p.y - a.y) * (p.y - b.y) <= 0

\* p lies on the boundary of the polygon
OnBoundary(p, polygon) ==
    \E i \in 1..Len(polygon) :
        OnSegment(p, polygon[i], polygon[After(i, Len(polygon))])

\* what the edge from a to b adds to the winding number around p, for p off
\* the boundary: +1 when it passes to the right of p upwards, -1 downwards
Wind(p, a, b) ==
    IF a.y <= p.y /\ b.y > p.y /\ Orient(a, b, p) > 0 THEN 1
    ELSE IF a.y > p.y /\ b.y <= p.y /\ Orient(a, b, p) < 0 THEN -1
    ELSE 0

RECURSIVE WindingFrom(_, _, _)
WindingFrom(p, polygon, i) ==
    IF i > Len(polygon) THEN 0
    ELSE Wind(p, polygon[i], polygon[After(i, Len(polygon))])
             + WindingFrom(p, polygon, i + 1)

\* p lies in the interior of the polygon
Interior(p, polygon) ==
    ~OnBoundary(p, polygon) /\ WindingFrom(p, polygon, 1) # 0

\* a polygon of Polygons that is simple: a rectangle, or a triangle that is
\* not flat
Simple(polygon) ==
    Len(polygon) = 4 \/ Orient(polygon[1], polygon[2], polygon[3]) # 0

\* the bounding boxes of a and b are strictly apart
Separated(a, b) ==
    \/ \A i \in 1..Len(a), j \in 1..Len(b) : a[i].x < b[j].x
    \/ \A i \in 1..Len(a), j \in 1..Len(b) : a[i].x > b[j].x
    \/ \A i \in 1..Len(a), j \in 1..Len(b) : a[i].y < b[j].y
    \/ \A i \in 1..Len(a), j \in 1..Len(b) : a[i].y > b[j].y

---------------------------------------------------------------------------
(* The polygons the model draws its inputs from *)

\* the rectangle with corners (x1, y1) and (x2, y2), as a polygon
Rect(x1, y1, x2, y2) == <<Pt(x1, y1), Pt(x2, y1), Pt(x2, y2), Pt(x1, y2)>>

Grid == { Pt(x, y) : x \in 0..GridMax, y \in 0..GridMax }

\* every rectangle of the grid with sides along the axes
Rectangles ==
    { Rect(c[1], c[2], c[3], c[4]) :
          c \in { c \in (0..GridMax) \X (0..GridMax) \X (0..GridMax) \X (0..GridMax) :
                    c[1] < c[3] /\ c[2] < c[4] } }

\* every triangle with three different vertices in the corner 0..TriMax of
\* the grid, in every order of its vertices, flat ones included
TriGrid == { Pt(x, y) : x \in 0..TriMax, y \in 0..TriMax }

Triangles ==
    { <<t[1], t[2], t[3]>> :
          t \in { t \in TriGrid \X TriGrid \X TriGrid :
                    t[1] # t[2] /\ t[2] # t[3] /\ t[1] # t[3] } }

Polygons == Triangles \cup Rectangles

---------------------------------------------------------------------------
(* The state machine *)

\* The engine state the operations work on
eng == [sources |-> sources, nodes |-> nodes, timers |-> timers, ctx |-> ctx,
        branch |-> "none"]

\* Store the engine state r; node objects nothing refers to any more are dropped
Commit(r) ==
    /\ sources' = r.sources
    /\ timers' = r.timers
    /\ nodes' = Collect(r.nodes, r.sources, r.timers)
    /\ ctx' = r.ctx

Mark(op, id, branch) == [op |-> op, id |-> id, branch |-> branch]

\* the entries stopAll() would start fading
Unmarked(e) ==
    { i \in 1..Len(e.sources) : e.nodes[e.sources[i].node].fadeOutTimer = NoTimer }

\* Room for the objects a call may allocate (the bounds of the model)
RoomForNode(id) == LookUp(eng, id) = NoNode => FreeSlots(nodes) # {}
RoomForTimers(k) == Len(timers) + k <= MaxTimers
RoomForStop(id) ==
    (LookUp(eng, id) # NoNode /\ nodes[LookUp(eng, id)].fadeOutTimer = NoTimer)
        => RoomForTimers(1)

\* the due timers
Due == { i \in 1..Len(timers) : timers[i].left = 0 }

\* previewTimerRef.current === null
NoPreviewTimer == [on |-> FALSE, id |-> NoId, left |-> 0]

\* no debounce timer of the auto-save is pending
NoSaveTimer == [on |-> FALSE, projects |-> <<>>]

\* a user without projects on a deployed backend: nothing in memory, nothing
\* stored, no save under way
InitStore ==
    /\ projects = <<>>
    /\ stored = <<>>
    /\ saveTimer = NoSaveTimer
    /\ inflight = <<>>
    /\ backendAvailable = TRUE
    /\ isLoadingProjects = FALSE

\* the engine and the views after construction
InitEngine ==
    /\ sources = <<>>
    /\ nodes = <<>>
    /\ timers = <<>>
    /\ ctx = "none"
    /\ device = "ok"
    /\ selectedHotspotId = NoId
    /\ playingId = NoId
    /\ isDrawing = FALSE
    /\ currentPoints = <<>>
    /\ previewingChannelId = NoId
    /\ previewTimer = NoPreviewTimer
    /\ last = Mark("init", NoId, "none")

\* no geometry call has been made
InitGeometry ==
    /\ poly1 = <<>>
    /\ poly2 = <<>>
    /\ point = [x |-> 0, y |-> 0]
    /\ answer = "none"

\* a new project: no hotspots, no channels
Init ==
    /\ InitEngine
    /\ InitStore
    /\ InitGeometry
    /\ hotspots = <<>>
    /\ globalChannels = <<>>

Play(id, s) ==
    /\ RoomForNode(id)
    /\ LET r == DoPlay(eng, id, s, device)
       IN  Commit(r) /\ last' = Mark("play", id, r.branch)
    /\ UNCHANGED <<device, selectedHotspotId, document, playingId>>
    /\ UNCHANGED <<geometry, preview, saving>>

Stop(id) ==
    /\ RoomForStop(id)
    /\ LET r == DoStop(eng, id, device)
       IN  Commit(r) /\ last' = Mark("stop", id, r.branch)
    /\ UNCHANGED <<device, selectedHotspotId, document, playingId>>
    /\ UNCHANGED <<geometry, preview, saving>>

StopAll ==
    /\ RoomForTimers(Cardinality(Unmarked(eng)))
    /\ LET r == DoStopAll(eng, device)
       IN  Commit(r) /\ last' = Mark("stopAll", NoId, r.branch)
    /\ UNCHANGED <<device, selectedHotspotId, document, playingId>>
    /\ UNCHANGED <<geometry, preview, saving>>

UpdateSettings(id, s) ==
    /\ LET r == DoUpdateSettings(eng, id, s, device)
       IN  Commit(r) /\ last' = Mark("updateSettings", id, r.branch)
    /\ UNCHANGED <<device, selectedHotspotId, document, playingId>>
    /\ UNCHANGED <<geometry, preview, saving>>

\* EditorView's polygon onClick: select, then stopAll() and play() when the
\* hotspot h has a clip (hasClip and s are h.audioUrl and h.settings)
ClickHotspot(h, hasClip, s) ==
    /\ hasClip => RoomForNode(h) /\ RoomForTimers(Cardinality(Unmarked(eng)))
    /\ selectedHotspotId' = h
    /\ IF hasClip
       THEN LET r == DoPlay(DoStopAll(eng, device), h, s, device)
            IN  Commit(r) /\ last' = Mark("click", h, r.branch)
       ELSE Commit(eng) /\ last' = Mark("click", h, "noclip")
    /\ UNCHANGED <<device, document, playingId, geometry, preview, saving>>

TimerFire ==
    /\ Due # {}
    /\ LET i == CHOOSE j \in Due : \A k \in Due : j <= k
           r == Teardown(eng, i)
       IN  Commit(r) /\ last' = Mark("env", NoId, "timer")
    /\ UNCHANGED <<device, selectedHotspotId, document, playingId>>
    /\ UNCHANGED <<geometry, preview, saving>>

\* Time passes: a quantum, or the time to the next deadline if that is less
Quantum == StopAllDelay

Elapse(tms) ==
    LET next == CHOOSE x \in {tms[i].left : i \in 1..Len(tms)} :
                    \A i \in 1..Len(tms) : x <= tms[i].left
        d == IF next < Quantum THEN next ELSE Quantum
    IN  [i \in 1..Len(tms) |-> [tms[i] EXCEPT !.left = @ - d]]

Tick ==
    /\ timers # <<>>
    /\ Due = {}
    /\ timers' = Elapse(timers)
    /\ last' = Mark("env", NoId, "tick")
    /\ UNCHANGED <<sources, nodes, ctx, device, selectedHotspotId>>
    /\ UNCHANGED <<document, playingId, geometry, preview, saving>>

\* a clip that does not loop reaches its end
ClipEnded(n) ==
    /\ n \in DOMAIN nodes
    /\ nodes[n].audio = "playing"
    /\ ~nodes[n].loop
    /\ Commit(Ended(eng, n))
    /\ last' = Mark("env", NoId, "ended")
    /\ UNCHANGED <<device, selectedHotspotId, document, playingId>>
    /\ UNCHANGED <<geometry, preview, saving>>

\* the output device becomes available, blocked (autoplay policy) or absent
DeviceChange(d) ==
    /\ d # device
    /\ device' = d
    /\ last' = Mark("env", NoId, "device")
    /\ UNCHANGED <<sources, nodes, timers, ctx, selectedHotspotId>>
    /\ UNCHANGED <<document, playingId, geometry, preview, saving>>

\* The settings calls for id carry: either object for "a", one for the rest
SettingsOf(id) == IF id = "a" THEN Settings ELSE {SettingsA}

\* the engine's four calls, for the voice ids of ids
Calls(ids) ==
    \/ \E id \in ids : \E s \in SettingsOf(id) : Play(id, s)
    \/ \E id \in ids : Stop(id)
    \/ StopAll
    \/ \E id \in ids : \E s \in SettingsOf(id) : UpdateSettings(id, s)

\* what happens without a call: a teardown runs, time passes, a clip ends
Env ==
    \/ TimerFire
    \/ Tick
    \/ \E n \in NodeIds : ClipEnded(n)

\* The mix engine under any sequence of calls on two voice ids
Next == Calls(Ids) \/ Env

Spec == Init /\ [][Next]_vars

\* The mix engine with one voice id; timers fire and time passes
NextOne == Calls({"a"}) \/ Env

LiveSpec == Init /\ [][NextOne]_vars /\ WF_vars(TimerFire) /\ WF_vars(Tick)

\* The editor canvas: hotspots are auditioned by clicking them
NextEditor ==
    \/ \E h \in Ids, hasClip \in BOOLEAN, s \in Settings : ClickHotspot(h, hasClip, s)
    \/ Env

SpecEditor == Init /\ [][NextEditor]_vars

\* The mix engine with one voice id and an output device that comes and goes
NextDevice ==
    \/ Calls({"a"})
    \/ Env
    \/ \E d \in {"ok", "blocked", "absent"} : DeviceChange(d)

SpecDevice == Init /\ [][NextDevice]_vars

\* settings whose fade-out takes no time
SettingsCut == [SettingsA EXCEPT !.fadeOut = 0]

\* The mix engine played and stopped: voice "a" with a fade-out of 0.2 s or of
\* none, voice "b" with one of 0.05 s
NextFade ==
    \/ \E s \in {SettingsA, SettingsCut} : Play("a", s)
    \/ Play("b", SettingsB)
    \/ \E id \in Ids : Stop(id)
    \/ Env

SpecFade == Init /\ [][NextFade]_vars

---------------------------------------------------------------------------
(* The authoring document: hotspots and the settings panel *)

\* a Hotspot (name, colour and file are left out); audioUrl is "null" or "url"
Hotspot(id, points, audioUrl, settings) ==
    [id |-> id, points |-> points, audioUrl |-> audioUrl, settings |-> settings]

\* A saved project as the editor gets it: two hotspots with clips
LoadedHotspots ==
    << Hotspot("a", Rect(0, 0, 1, 1), "url", SettingsA),
       Hotspot("b", Rect(2, 2, 3, 3), "url", SettingsB) >>

\* project.hotspots.find(h => h.id === selectedHotspotId), as an index; 0 if none
SelectedIndex ==
    IF \E i \in 1..Len(hotspots) : hotspots[i].id = selectedHotspotId
    THEN CHOOSE i \in 1..Len(hotspots) : hotspots[i].id = selectedHotspotId
    ELSE 0

\* hotspots.map(h => h.id === id ? {...h, [field]: value} : h)
MapHotspot(hs, id, field, value) ==
    [i \in 1..Len(hs) |-> IF hs[i].id = id THEN [hs[i] EXCEPT ![field] = value]
                                           ELSE hs[i]]

\* the frame of a step that only edits the document
EngineUnchanged == UNCHANGED <<sources, nodes, timers, ctx, device>>

\* "Delete Zone" of the settings panel
DeleteZone ==
    /\ SelectedIndex # 0
    /\ hotspots' = SelectSeq(hotspots, LAMBDA h : h.id # selectedHotspotId)
    /\ selectedHotspotId' = NoId
    /\ last' = Mark("deleteZone", selectedHotspotId, "done")
    /\ EngineUnchanged
    /\ UNCHANGED <<globalChannels, isDrawing, currentPoints, playingId>>
    /\ UNCHANGED <<geometry, preview, saving>>

\* the trash button next to the audio file of the selected hotspot
RemoveAudio ==
    /\ SelectedIndex # 0
    /\ hotspots[SelectedIndex].audioUrl # "null"
    /\ hotspots' = MapHotspot(hotspots, selectedHotspotId, "audioUrl", "null")
    /\ last' = Mark("removeAudio", selectedHotspotId, "done")
    /\ EngineUnchanged
    /\ UNCHANGED <<globalChannels, selectedHotspotId, isDrawing, currentPoints, playingId>>
    /\ UNCHANGED <<geometry, preview, saving>>

\* handleLocalUpload for the selected hotspot, offered while it has no clip
AssignAudio ==
    /\ SelectedIndex # 0
    /\ hotspots[SelectedIndex].audioUrl = "null"
    /\ hotspots' = MapHotspot(hotspots, selectedHotspotId, "audioUrl", "url")
    /\ last' = Mark("assignAudio", selectedHotspotId, "done")
    /\ EngineUnchanged
    /\ UNCHANGED <<globalChannels, selectedHotspotId, isDrawing, currentPoints, playingId>>
    /\ UNCHANGED <<geometry, preview, saving>>

\* a slider or switch of the settings panel sets field f of the selected
\* hotspot's settings to v; the controls show while the hotspot has a clip
EditSetting(f, v) ==
    /\ SelectedIndex # 0
    /\ hotspots[SelectedIndex].audioUrl # "null"
    /\ hotspots' = MapHotspot(hotspots, selectedHotspotId, "settings",
                              [hotspots[SelectedIndex].settings EXCEPT ![f] = v])
    /\ last' = Mark("editSetting", selectedHotspotId, f)
    /\ EngineUnchanged
    /\ UNCHANGED <<globalChannels, selectedHotspotId, isDrawing, currentPoints, playingId>>
    /\ UNCHANGED <<geometry, preview, saving>>

\* the values a control of field f is set to
ValuesOf(f) == {SettingsA[f], SettingsB[f]}

\* the polygon onClick for the i-th hotspot of the document
ClickZone(i) ==
    /\ i \in 1..Len(hotspots)
    /\ ClickHotspot(hotspots[i].id, hotspots[i].audioUrl # "null", hotspots[i].settings)

\* the candidate must have more than this many points to be committed
MinPoints == 5

\* Not the code's: a length test that lets every candidate through.  C17 must
\* tell it from LongEnough.
LongEnoughAlways(points) == Len(points) > 0

\* handleStopDrawing: currentPoints.length > 5
LongEnough(points) == Len(points) > MinPoints

\* Not the code's: an overlap check that only asks whether a point of the
\* candidate falls in a hotspot.  C19 must tell it from HasOverlap.
HasOverlapByPoints(points, hs) ==
    \E i \in 1..Len(hs) : \E k \in 1..Len(points) :
        isPointInPolygon(points[k], hs[i].points)

\* handleStopDrawing: project.hotspots.some(h => polygonsOverlap(currentPoints, h.points))
HasOverlap(points, hs) ==
    \E i \in 1..Len(hs) : polygonsOverlap(points, hs[i].points)

\* crypto.randomUUID(): an id no hotspot of the document has
NewId(hs) == CHOOSE id \in Ids : \A i \in 1..Len(hs) : hs[i].id # id

\* the settings handleStopDrawing gives a new hotspot (line 1372): volume 1,
\* pan 0, loop false, fadeIn 0.5 s, fadeOut 0.5 s
NewHotspotSettings ==
    [volume |-> 10, pan |-> 0, loop |-> FALSE, fadeIn |-> 500, fadeOut |-> 500]

\* the hotspot handleStopDrawing creates, lines 1365-1373
NewHotspot(id, points) == Hotspot(id, points, "null", NewHotspotSettings)

\* The mouse paths gestures follow, as the points handleDrawMove samples:
\* a triangle in a corner of the image, a wedge that has the triangle's left
\* side as its own and covers it, a box away from both, and a frame around
\* all three; and a box that meets the other box in one corner only.
CornerStroke == <<Pt(1, 1), Pt(1, 5), Pt(2, 5), Pt(3, 5), Pt(4, 5), Pt(5, 5)>>

WedgeStroke == <<Pt(9, 5), Pt(7, 4), Pt(5, 3), Pt(3, 2), Pt(1, 1), Pt(1, 5)>>

FarStroke == <<Pt(7, 1), Pt(8, 1), Pt(9, 1), Pt(9, 2), Pt(8, 2), Pt(7, 2)>>

CoverStroke == <<Pt(0, 0), Pt(10, 0), Pt(10, 6), Pt(5, 6), Pt(0, 6), Pt(0, 3)>>

AbutStroke == <<Pt(5, 0), Pt(6, 0), Pt(7, 0), Pt(7, 1), Pt(6, 1), Pt(5, 1)>>

Strokes == {CornerStroke, WedgeStroke, FarStroke, CoverStroke, AbutStroke}

\* the points the mouse visits
StrokePoints == UNION { { st[k] : k \in 1..Len(st) } : st \in Strokes }

\* pts is the beginning of a path of Strokes
OnStroke(pts) ==
    \E st \in Strokes : Len(pts) <= Len(st) /\ SubSeq(st, 1, Len(pts)) = pts

\* the mouse is over no polygon at p (a mousedown on a polygon does not
\* start a gesture, line 1337)
OffEveryZone(p) ==
    \A i \in 1..Len(hotspots) :
        ~Interior(p, hotspots[i].points) /\ ~OnBoundary(p, hotspots[i].points)

\* handleStartDrawing at point p (the project has its image)
StartDrawing(p) ==
    /\ OffEveryZone(p)
    /\ OnStroke(<<p>>)
    /\ RoomForTimers(Cardinality(Unmarked(eng)))
    /\ isDrawing' = TRUE
    /\ currentPoints' = <<p>>
    /\ selectedHotspotId' = NoId
    /\ Commit(DoStopAll(eng, device))
    /\ last' = Mark("startDrawing", NoId, "done")
    /\ UNCHANGED <<globalChannels, device, hotspots, playingId>>
    /\ UNCHANGED <<geometry, preview, saving>>

\* handleDrawMove at point p
DrawMove(p) ==
    /\ isDrawing
    /\ Len(currentPoints) < MaxPoints
    /\ OnStroke(Append(currentPoints, p))
    /\ currentPoints' = Append(currentPoints, p)
    /\ last' = Mark("drawMove", NoId, "done")
    /\ EngineUnchanged
    /\ UNCHANGED <<globalChannels, selectedHotspotId, isDrawing, hotspots, playingId>>
    /\ UNCHANGED <<geometry, preview, saving>>

\* handleStopDrawing (mouse up, or the mouse leaves the canvas)
StopDrawing ==
    /\ isDrawing
    /\ (LongEnough(currentPoints) /\ ~HasOverlap(currentPoints, hotspots))
           => Len(hotspots) < Cardinality(Ids)
    /\ IF ~LongEnough(currentPoints)
       THEN /\ last' = Mark("stopDrawing", NoId, "short")
            /\ UNCHANGED <<hotspots, selectedHotspotId>>
       ELSE IF HasOverlap(currentPoints, hotspots)
       THEN /\ last' = Mark("stopDrawing", NoId, "overlap")
            /\ UNCHANGED <<hotspots, selectedHotspotId>>
       ELSE LET id == NewId(hotspots)
            IN  /\ hotspots' = Append(hotspots, NewHotspot(id, currentPoints))
                /\ selectedHotspotId' = id
                /\ last' = Mark("stopDrawing", id, "created")
    /\ isDrawing' = FALSE
    /\ currentPoints' = <<>>
    /\ EngineUnchanged
    /\ UNCHANGED <<globalChannels, playingId, geometry, preview, saving>>

\* handleImageUpload: a new background image drops every hotspot
ImageUpload ==
    /\ hotspots' = <<>>
    /\ last' = Mark("imageUpload", NoId, "done")
    /\ EngineUnchanged
    /\ UNCHANGED <<globalChannels, selectedHotspotId, isDrawing, currentPoints, playingId>>
    /\ UNCHANGED <<geometry, preview, saving>>

\* The editor on a saved project: zones are clicked, edited and deleted
InitDocument ==
    /\ InitEngine
    /\ InitStore
    /\ InitGeometry
    /\ hotspots = LoadedHotspots
    /\ globalChannels = <<>>

NextDocument ==
    \/ \E i \in 1..Len(hotspots) : ClickZone(i)
    \/ DeleteZone
    \/ RemoveAudio
    \/ AssignAudio
    \/ \E v \in ValuesOf("loop") : EditSetting("loop", v)
    \/ ImageUpload
    \/ Env

SpecDocument == InitDocument /\ [][NextDocument]_vars

\* The editor on a new project: zones are drawn, given clips, edited and
\* deleted.  Only zones without a clip are clicked, so the engine stays idle;
\* a click needs the button pressed and released over the zone, so none
\* happens while a gesture holds it down.
NextDraw ==
    \/ \E p \in StrokePoints : StartDrawing(p)
    \/ \E p \in StrokePoints : DrawMove(p)
    \/ StopDrawing
    \/ \E i \in 1..Len(hotspots) :
           ~isDrawing /\ hotspots[i].audioUrl = "null" /\ ClickZone(i)
    \/ DeleteZone
    \/ AssignAudio
    \/ RemoveAudio
    \/ \E v \in ValuesOf("loop") : EditSetting("loop", v)
    \/ ImageUpload

SpecDraw == Init /\ [][NextDraw]_vars

---------------------------------------------------------------------------
(* The player: hotspots sound while the pointer is over them *)

\* PlayerView's hasStarted: the start screen has been left (the first step of
\* the player is handleStart, and every step sets last)
hasStarted == last.op # "init"

\* handleStart: stopAll(), then the global channels (the project has none)
HandleStart ==
    /\ ~hasStarted
    /\ RoomForTimers(Cardinality(Unmarked(eng)))
    /\ LET r == DoStopAll(eng, device)
       IN  Commit(r) /\ last' = Mark("start", NoId, r.branch)
    /\ UNCHANGED <<device, selectedHotspotId, document, playingId>>
    /\ UNCHANGED <<geometry, preview, saving>>

\* playHotspot(hotspots[i]): onMouseEnter, onTouchStart, and handleTouchMove
\* over a polygon
PlayHotspot(i) ==
    /\ hasStarted
    /\ i \in 1..Len(hotspots)
    /\ hotspots[i].audioUrl # "null"
    /\ playingId # hotspots[i].id
    /\ playingId # NoId => RoomForStop(playingId)
    /\ RoomForNode(hotspots[i].id)
    /\ LET stopped == IF playingId # NoId THEN DoStop(eng, playingId, device) ELSE eng
           r == DoPlay(stopped, hotspots[i].id, hotspots[i].settings, device)
       IN  Commit(r) /\ last' = Mark("enter", hotspots[i].id, r.branch)
    /\ playingId' = hotspots[i].id
    /\ UNCHANGED <<device, selectedHotspotId, document, geometry, preview, saving>>

\* Not the code's: a stopHotspot that silences everything with stopAll().
\* C24 must tell it from StopHotspot.
StopHotspotAll(i) ==
    /\ hasStarted
    /\ i \in 1..Len(hotspots)
    /\ playingId = hotspots[i].id
    /\ RoomForTimers(Cardinality(Unmarked(eng)))
    /\ Commit(DoStopAll(eng, device))
    /\ last' = Mark("leave", playingId, "done")
    /\ playingId' = NoId
    /\ UNCHANGED <<device, selectedHotspotId, document, geometry, preview, saving>>

\* stopHotspot(hotspots[i]): onMouseLeave of the hotspot that is current (for
\* any other hotspot it does nothing); both arms of the loop test do the same
StopHotspot(i) ==
    /\ hasStarted
    /\ i \in 1..Len(hotspots)
    /\ playingId = hotspots[i].id
    /\ RoomForStop(playingId)
    /\ LET r == DoStop(eng, playingId, device)
       IN  Commit(r) /\ last' = Mark("leave", playingId, r.branch)
    /\ playingId' = NoId
    /\ UNCHANGED <<device, selectedHotspotId, document, geometry, preview, saving>>

\* handleTouchMove over no polygon
TouchOutside ==
    /\ hasStarted
    /\ playingId # NoId
    /\ RoomForStop(playingId)
    /\ LET r == DoStop(eng, playingId, device)
       IN  Commit(r) /\ last' = Mark("touchOutside", playingId, r.branch)
    /\ playingId' = NoId
    /\ UNCHANGED <<device, selectedHotspotId, document, geometry, preview, saving>>

\* The player on a saved project
NextPlayer ==
    \/ HandleStart
    \/ \E i \in 1..Len(hotspots) : PlayHotspot(i)
    \/ \E i \in 1..Len(hotspots) : StopHotspot(i)
    \/ TouchOutside
    \/ Env

SpecPlayer == InitDocument /\ [][NextPlayer]_vars

\* handleTouchMove with the touch over the i-th polygon, or over none (i = 0)
TouchMove(i) ==
    /\ hasStarted
    /\ i \in 0..Len(hotspots)
    /\ IF i # 0 /\ hotspots[i].id # playingId /\ hotspots[i].audioUrl # "null"
       THEN \* playHotspot
            /\ playingId # NoId => RoomForStop(playingId)
            /\ RoomForNode(hotspots[i].id)
            /\ LET stopped == IF playingId # NoId THEN DoStop(eng, playingId, device)
                                                  ELSE eng
                   r == DoPlay(stopped, hotspots[i].id, hotspots[i].settings, device)
               IN  Commit(r)
            /\ playingId' = hotspots[i].id
            /\ last' = Mark("touchMove", hotspots[i].id, "play")
       ELSE IF i = 0 /\ playingId # NoId
       THEN /\ RoomForStop(playingId)
            /\ Commit(DoStop(eng, playingId, device))
            /\ playingId' = NoId
            /\ last' = Mark("touchMove", NoId, "stop")
       ELSE /\ Commit(eng)
            /\ playingId' = playingId
            /\ last' = Mark("touchMove", IF i = 0 THEN NoId ELSE hotspots[i].id, "nothing")
    /\ UNCHANGED <<device, selectedHotspotId, document, geometry, preview, saving>>

\* The projects the touch player is opened on: both hotspots with a clip, or
\* the second without
TouchDocuments ==
    { LoadedHotspots, [LoadedHotspots EXCEPT ![2].audioUrl = "null"] }

InitTouch ==
    /\ InitEngine
    /\ InitStore
    /\ InitGeometry
    /\ hotspots \in TouchDocuments
    /\ globalChannels = <<>>

\* The player under touch: a touch starts on a polygon and drags
NextTouch ==
    \/ HandleStart
    \/ \E i \in 1..Len(hotspots) : PlayHotspot(i)
    \/ \E i \in 0..Len(hotspots) : TouchMove(i)
    \/ Env

SpecTouch == InitTouch /\ [][NextTouch]_vars

\* a global channel
Channel(id, audioUrl, settings) ==
    [id |-> id, audioUrl |-> audioUrl, settings |-> settings]

\* project.globalChannels of the projects a session plays: an ambient bed
\* whose clip loops or plays once, and a channel that has no clip yet
SessionChannels ==
    { <<Channel("g", "url", s), Channel("h", "null", SettingsB)>> : s \in Settings }

\* the channels with a clip
ClipChannels == SelectSeq(globalChannels, LAMBDA c : c.audioUrl # "null")

\* handleStart's forEach: play() for every channel with a clip, from the k-th on
RECURSIVE PlayChannels(_, _, _)
PlayChannels(e, k, d) ==
    IF k > Len(ClipChannels) THEN e
    ELSE PlayChannels(DoPlay(e, ClipChannels[k].id, ClipChannels[k].settings, d),
                      k + 1, d)

\* handleStart on a project with global channels: stopAll(), then the channels
StartSession ==
    /\ ~hasStarted
    /\ RoomForTimers(Cardinality(Unmarked(eng)))
    /\ Cardinality(FreeSlots(nodes)) >= Len(ClipChannels)
    /\ Commit(PlayChannels(DoStopAll(eng, device), 1, device))
    /\ last' = Mark("start", NoId, "done")
    /\ UNCHANGED <<device, selectedHotspotId, document, playingId>>
    /\ UNCHANGED <<geometry, preview, saving>>

\* The player on a project with global channels, under mouse and touch
NextSession ==
    \/ StartSession
    \/ \E i \in 1..Len(hotspots) : PlayHotspot(i)
    \/ \E i \in 1..Len(hotspots) : StopHotspot(i)
    \/ \E i \in 0..Len(hotspots) : TouchMove(i)
    \/ Env

InitSession ==
    /\ InitEngine
    /\ InitStore
    /\ InitGeometry
    /\ hotspots = LoadedHotspots
    /\ globalChannels \in SessionChannels

SpecSession == InitSession /\ [][NextSession]_vars

---------------------------------------------------------------------------
(* The editor's channel preview *)

\* setTimeout(..., 5000) of toggleChannelPreview
PreviewTime == 5000

\* `preview-${channel.id}`
PreviewId(c) == "preview-" \o c

\* the project the preview is examined on: one zone with a clip; a looping
\* channel, a channel whose clip plays once, and a channel without a clip
PreviewHotspots == << Hotspot("a", Rect(0, 0, 1, 1), "url", SettingsA) >>
PreviewChannels ==
    << Channel("g", "url", SettingsB), Channel("h", "url", SettingsA),
       Channel("k", "null", SettingsB) >>

\* engine.stop(`preview-${previewingChannelId}`) if a preview is recorded
StopRecorded(e, d) ==
    IF previewingChannelId # NoId THEN DoStop(e, PreviewId(previewingChannelId), d) ELSE e

\* toggleChannelPreview(channel) for the k-th channel of the project
TogglePreview(k) ==
    LET channel == globalChannels[k]
        previewId == PreviewId(channel.id)
    IN  /\ ~isDrawing
        /\ IF channel.audioUrl = "null"
           THEN /\ Commit(eng)
                /\ last' = Mark("toggle", channel.id, "noclip")
                /\ UNCHANGED preview
           ELSE IF previewingChannelId = channel.id
           THEN /\ RoomForStop(previewId)
                /\ Commit(DoStop(eng, previewId, device))
                /\ previewingChannelId' = NoId
                /\ previewTimer' = NoPreviewTimer
                /\ last' = Mark("toggle", channel.id, "off")
           ELSE /\ RoomForNode(previewId)
                /\ previewingChannelId # NoId => RoomForStop(PreviewId(previewingChannelId))
                /\ Commit(DoPlay(StopRecorded(eng, device), previewId, channel.settings,
                                 device))
                /\ previewingChannelId' = channel.id
                /\ previewTimer' = [on |-> TRUE, id |-> previewId, left |-> PreviewTime]
                /\ last' = Mark("toggle", channel.id, "on")
        /\ UNCHANGED <<device, selectedHotspotId, document, playingId, geometry, saving>>

\* the auto-stop callback of the preview timer runs
PreviewTimeout ==
    /\ previewTimer.on
    /\ previewTimer.left = 0
    /\ RoomForStop(previewTimer.id)
    /\ Commit(DoStop(eng, previewTimer.id, device))
    /\ previewingChannelId' = NoId
    /\ previewTimer' = NoPreviewTimer
    /\ last' = Mark("previewTimeout", previewingChannelId, "done")
    /\ UNCHANGED <<device, selectedHotspotId, document, playingId, geometry, saving>>

\* The longest teardown delay of the engine. The auto-stop is tracked to the
\* millisecond only over its last Horizon milliseconds; before that it is Far
Horizon == DefaultFade + StopMargin
Far == previewTimer.on /\ previewTimer.left > Horizon

\* the deadlines time can run up to
Deadlines ==
    {timers[i].left : i \in 1..Len(timers)}
        \cup (IF previewTimer.on /\ ~Far THEN {previewTimer.left} ELSE {})

\* the time that passes in one step: a quantum, or the time to the next deadline
\* if that is less
Step ==
    IF Deadlines = {} THEN Quantum
    ELSE LET next == CHOOSE x \in Deadlines : \A y \in Deadlines : x <= y
         IN  IF next < Quantum THEN next ELSE Quantum

\* the auto-stop timer after a step of time: a Far timer stays Far or comes
\* within Horizon of its deadline
Approach ==
    IF ~previewTimer.on THEN {previewTimer}
    ELSE IF Far THEN {previewTimer, [previewTimer EXCEPT !.left = Horizon]}
    ELSE {[previewTimer EXCEPT !.left = @ - Step]}

\* Time passes in the editor; a due callback runs before more time passes
PreviewTick ==
    /\ timers # <<>> \/ previewTimer.on
    /\ Due = {}
    /\ ~(previewTimer.on /\ previewTimer.left = 0 /\ RoomForStop(previewTimer.id))
    /\ timers' = [i \in 1..Len(timers) |-> [timers[i] EXCEPT !.left = @ - Step]]
    /\ previewTimer' \in Approach
    /\ last' = Mark("env", NoId, "tick")
    /\ UNCHANGED <<sources, nodes, ctx, device, selectedHotspotId, previewingChannelId>>
    /\ UNCHANGED <<document, playingId, geometry, saving>>

InitPreview ==
    /\ InitEngine
    /\ InitStore
    /\ InitGeometry
    /\ hotspots = PreviewHotspots
    /\ globalChannels = PreviewChannels

\* The editor with the channel list: previews, zone clicks, draw gestures
NextPreview ==
    \/ \E k \in 1..Len(globalChannels) : TogglePreview(k)
    \/ PreviewTimeout
    \/ \E i \in 1..Len(hotspots) : ClickZone(i)
    \/ StartDrawing(FarStroke[1])
    \/ StopDrawing
    \/ TimerFire
    \/ PreviewTick
    \/ \E n \in NodeIds : ClipEnded(n)

SpecPreview == InitPreview /\ [][NextPreview]_vars

---------------------------------------------------------------------------
(* The project list and its auto-save *)

\* saveProjects calls under way at once
MaxInFlight == 2

\* the UUID of a new project, and the id of the project stored before sign-in
NewIds == {"p"}
StoredId == "s"
ProjectIds == NewIds \cup {StoredId}

\* a Project: its id, its image (object URL or signed URL, and storage path);
\* "null" is null
Project(id, imageUrl, imagePath) ==
    [id |-> id, imageUrl |-> imageUrl, imagePath |-> imagePath]

\* saveProjects' sanitizedProjects: the URLs are not saved
Sanitize(ps) == [i \in 1..Len(ps) |-> [ps[i] EXCEPT !.imageUrl = "null"]]

\* what saveProjects(token, ps) stores: the list as it is in the browser's
\* storage without a backend, the sanitized list on the server
Persist(ps) == IF backendAvailable THEN Sanitize(ps) ELSE ps

\* refreshProjectUrls for each project: a stored path gets a signed URL
Hydrate(ps) ==
    [i \in 1..Len(ps) |->
        IF ps[i].imagePath # "null" THEN [ps[i] EXCEPT !.imageUrl = "signed"] ELSE ps[i]]

\* The auto-save effect after a render with the list ps: the cleanup of the
\* effect before it clears its timer; a timer is set if the list is not empty
AutoSave(ps) ==
    saveTimer' = IF Len(ps) > 0 THEN [on |-> TRUE, projects |-> ps] ELSE NoSaveTimer

\* the frame of a step of the project list
ViewsUnchanged ==
    UNCHANGED <<sources, nodes, timers, ctx, device, selectedHotspotId, document,
                playingId, preview, geometry>>

\* the "Load projects" effect completes after sign-in
LoadProjects ==
    /\ isLoadingProjects
    /\ projects' = Hydrate(stored)
    /\ AutoSave(projects')
    /\ last' = Mark("load", NoId, "done")
    /\ isLoadingProjects' = FALSE
    /\ UNCHANGED <<stored, inflight, backendAvailable>>
    /\ ViewsUnchanged

\* handleCreateProject; id is the new UUID
CreateProject(id) ==
    /\ \A i \in 1..Len(projects) : projects[i].id # id
    /\ projects' = Append(projects, Project(id, "null", "null"))
    /\ AutoSave(projects')
    /\ last' = Mark("create", id, "done")
    /\ UNCHANGED <<stored, inflight, backendAvailable, isLoadingProjects>>
    /\ ViewsUnchanged

\* handleUpdateProject with the optimistic update of handleImageUpload, for the
\* project id that is open in the editor
UploadImage(id) ==
    /\ \E i \in 1..Len(projects) : projects[i].id = id
    /\ projects' = [i \in 1..Len(projects) |->
                        IF projects[i].id = id THEN Project(id, "blob", "path")
                                               ELSE projects[i]]
    /\ AutoSave(projects')
    /\ last' = Mark("update", id, "done")
    /\ UNCHANGED <<stored, inflight, backendAvailable, isLoadingProjects>>
    /\ ViewsUnchanged

\* handleDeleteProject(id) from the gallery
DeleteProject(id) ==
    /\ \E i \in 1..Len(projects) : projects[i].id = id
    /\ projects' = SelectSeq(projects, LAMBDA p : p.id # id)
    /\ AutoSave(projects')
    /\ last' = Mark("delete", id, "done")
    /\ UNCHANGED <<stored, inflight, backendAvailable, isLoadingProjects>>
    /\ ViewsUnchanged

\* the debounce timer runs out: saveProjects is called with the list of the
\* render that set the timer
SaveTimerFire ==
    /\ saveTimer.on
    /\ Len(inflight) < MaxInFlight
    /\ inflight' = Append(inflight, saveTimer.projects)
    /\ saveTimer' = NoSaveTimer
    /\ last' = Mark("save", NoId, "called")
    /\ UNCHANGED <<projects, stored, backendAvailable, isLoadingProjects>>
    /\ ViewsUnchanged

\* The k-th saveProjects call under way completes: the store holds its list.
\* Calls to the server complete in any order; the browser's storage is
\* written in the order of the calls
SaveComplete(k) ==
    /\ k \in 1..Len(inflight)
    /\ backendAvailable \/ k = 1
    /\ stored' = Persist(inflight[k])
    /\ inflight' = [i \in 1..(Len(inflight) - 1) |->
                        IF i < k THEN inflight[i] ELSE inflight[i + 1]]
    /\ last' = Mark("saved", NoId, "done")
    /\ UNCHANGED <<projects, saveTimer, backendAvailable, isLoadingProjects>>
    /\ ViewsUnchanged

\* a user signs in; the store is empty or holds one project with an image
InitSave ==
    /\ InitEngine
    /\ InitGeometry
    /\ hotspots = <<>>
    /\ globalChannels = <<>>
    /\ backendAvailable \in BOOLEAN
    /\ isLoadingProjects = TRUE
    /\ projects = <<>>
    /\ stored \in {<<>>, Persist(<<Project(StoredId, "blob", "path")>>)}
    /\ saveTimer = NoSaveTimer
    /\ inflight = <<>>

\* The signed-in application: the gallery and the editor change the project
\* list, the auto-save runs
NextSave ==
    \/ LoadProjects
    \/ \E id \in NewIds : CreateProject(id)
    \/ \E id \in ProjectIds : UploadImage(id)
    \/ \E id \in ProjectIds : DeleteProject(id)
    \/ SaveTimerFire
    \/ \E k \in 1..MaxInFlight : SaveComplete(k)

SpecSave == InitSave /\ [][NextSave]_vars

---------------------------------------------------------------------------
(* The geometry functions applied to polygons of a bounded grid *)

\* a returned boolean, as answer holds it
Answer(b) == IF b THEN "true" ELSE "false"

\* the views are idle while a geometry function is examined
Idle ==
    UNCHANGED <<sources, nodes, timers, ctx, device, selectedHotspotId, last,
                document, playingId, preview, saving>>

\* any two polygons, before polygonsOverlap is called on them
InitOverlap ==
    /\ InitEngine
    /\ InitStore
    /\ hotspots = <<>>
    /\ globalChannels = <<>>
    /\ poly1 \in Polygons
    /\ poly2 \in Polygons
    /\ point = Pt(0, 0)
    /\ answer = "none"

\* polygonsOverlap(poly1, poly2) is called and returns
CallPolygonsOverlap ==
    /\ answer = "none"
    /\ answer' = Answer(polygonsOverlap(poly1, poly2))
    /\ UNCHANGED <<poly1, poly2, point>>
    /\ Idle

SpecOverlap == InitOverlap /\ [][CallPolygonsOverlap]_vars

\* any polygon and any point, before isPointInPolygon is called on them
InitPoint ==
    /\ InitEngine
    /\ InitStore
    /\ hotspots = <<>>
    /\ globalChannels = <<>>
    /\ poly1 \in Polygons
    /\ poly2 = <<>>
    /\ point \in Grid
    /\ answer = "none"

\* isPointInPolygon(point, poly1) is called and returns
CallIsPointInPolygon ==
    /\ answer = "none"
    /\ answer' = Answer(isPointInPolygon(point, poly1))
    /\ UNCHANGED <<poly1, poly2, point>>
    /\ Idle

SpecPoint == InitPoint /\ [][CallIsPointInPolygon]_vars

---------------------------------------------------------------------------
(* Notions the properties use *)

InTable(id) == LookUp(eng, id) # NoNode
Voice(id) == nodes[LookUp(eng, id)]

\* the engine's own marker of a fading voice
Marked(id) == InTable(id) /\ Voice(id).fadeOutTimer # NoTimer

\* a teardown is pending for the voice of id
TeardownPending(id) ==
    InTable(id) /\ \E i \in 1..Len(timers) : timers[i].node = LookUp(eng, id)

\* the voice of id is fading out: its gain ramps to zero and a teardown is pending
FadingOut(id) == TeardownPending(id) /\ Voice(id).ramp.to = 0

\* the voice of id is Playing: registered, sounding, and no fade-out under way
Playing(id) ==
    InTable(id) /\ Voice(id).audio = "playing" /\ ~Marked(id) /\ ~TeardownPending(id)

\* the live instances of id: audio elements that have neither ended nor been
\* torn down
LiveVoices(id) ==
    { n \in DOMAIN nodes : nodes[n].id = id /\ nodes[n].audio \in {"playing", "failed"} }

---------------------------------------------------------------------------
(* Properties *)

\* The step is a call of op (every step sets last, and a call that changes
\* nothing and repeats the call before it is a stuttering step)
Called(op) == last'.op = op

\* C1: after any sequence of play, stop, stopAll and updateSettings calls,
\* teardown firings and natural clip endings, at most one live voice (an
\* audio element that has neither ended nor been torn down) exists per id.
C1_AtMostOneVoicePerId ==
    \A id \in Ids : Cardinality(LiveVoices(id)) <= 1

\* C2: when play(id) finds the voice fading out after stop(id), the pending
\* teardown is cancelled and the same voice is Playing again, no second
\* instance exists, and no teardown is left that would remove the voice
\* before a later stop or stopAll.
C2_RevivedVoiceStaysLive ==
    (last.op = "play" /\ last.branch = "revive") =>
        /\ InTable(last.id)
        /\ ~Marked(last.id)
        /\ Voice(last.id).ramp.to # 0
        /\ Cardinality(LiveVoices(last.id)) <= 1
        /\ \A i \in 1..Len(timers) : timers[i].id # last.id

\* C3 as claimed: play(id, s) on an id whose voice is Playing changes nothing
\* at all: no voice is created, and the voice's state, gain ramp, pan, loop
\* flag and remembered fade-out duration stay, whatever s is.
C3_ReplayChangesNothing ==
    [][(Called("play") /\ Playing(last'.id))
          => UNCHANGED <<sources, nodes, timers>>]_vars

\* C3 as amended: play(id, s) on an id whose voice is Playing creates no
\* voice, starts no timer and leaves the voice as it is (state, gain ramp,
\* pan, loop flag), except that the remembered fade-out duration becomes
\* s.fadeOut (0.3 s when absent).
C3_ReplayKeepsAllButFadeOut ==
    [][(Called("play") /\ Playing(last'.id))
          => /\ last'.branch = "noop"
             /\ UNCHANGED <<sources, timers>>
             /\ \A s \in Settings :
                   Play(last'.id, s)
                     => nodes' = [nodes EXCEPT ![LookUp(eng, last'.id)].fadeOutDuration =
                                                    OrDefault(s.fadeOut)]]_vars

\* a voice created with SettingsA and played again with SettingsB
C3_Witness ==
    /\ last.op = "play" /\ last.branch = "noop"
    /\ Playing(last.id)
    /\ Voice(last.id).pan = SettingsA.pan
    /\ Voice(last.id).ramp.to = SettingsA.volume
    /\ Voice(last.id).fadeOutDuration = SettingsB.fadeOut

\* the node in slot n is registered and carries the marker stop() sets
StopFading(n) ==
    /\ n \in DOMAIN nodes
    /\ nodes[n].fadeOutTimer # NoTimer
    /\ \E i \in 1..Len(sources) : sources[i].node = n

\* the node in slot n is destroyed: out of the table, paused and disconnected
Destroyed(n) ==
    /\ \A i \in 1..Len(sources) : sources[i].node # n
    /\ n \in DOMAIN nodes => nodes[n].audio = "paused"

\* the node in slot n is back in play: registered, no marker, no teardown of
\* stop() pending for it
Revived(n) ==
    /\ n \in DOMAIN nodes
    /\ nodes[n].fadeOutTimer = NoTimer
    /\ \E i \in 1..Len(sources) : sources[i].node = n
    /\ \A i \in 1..Len(timers) : timers[i].h # Handle(n)

\* C4: with timers that eventually fire, every stop(id) on a Playing voice
\* moves it to FadingOut (marked, gain ramping to zero, teardown pending), and
\* a voice that stop() set fading is eventually destroyed (out of the table,
\* paused, disconnected) unless a play(id) revives it first.
C4_StopFadesThenDestroys ==
    /\ [][\A id \in Ids :
            (Stop(id) /\ Playing(id)) => (Marked(id)' /\ FadingOut(id)')]_vars
    /\ \A n \in NodeIds : StopFading(n) ~> (Destroyed(n) \/ Revived(n))

\* stop() has just set a Playing voice fading and its teardown is pending
C4_Witness ==
    /\ last.op = "stop" /\ last.branch = "fade"
    /\ Marked(last.id) /\ FadingOut(last.id)
    /\ Voice(last.id).audio = "playing"

\* C5: stop(id) on a voice that is already fading out, whether by an earlier
\* stop or by stopAll, changes nothing: no new ramp, no new teardown.
C5_StopOnFadingChangesNothing ==
    [][(Called("stop") /\ FadingOut(last'.id))
          => UNCHANGED <<sources, nodes, timers>>]_vars

\* C6: after stopAll() every voice that was in the table at the call, also one
\* that was already fading out with a longer fade, ramps to zero and has a
\* teardown due within the fixed 150 ms.
C6_StopAllTearsDownEveryVoice ==
    [][Called("stopAll")
          => \A i \in 1..Len(sources) :
                LET n == sources[i].node
                IN  /\ n \in DOMAIN nodes'
                    /\ nodes'[n].ramp.to = 0
                    /\ \E k \in 1..Len(timers') :
                          timers'[k].node = n /\ timers'[k].left <= StopAllDelay]_vars

\* C7: after a click on a hotspot that has a clip, the hotspot is selected,
\* every other voice is fading out, and the hotspot's own voice is Playing
\* with no teardown left that would remove it, also when it was playing before.
C7_ClickedHotspotKeepsPlaying ==
    (last.op = "click" /\ last.branch # "noclip") =>
        /\ selectedHotspotId = last.id
        /\ \A id \in Ids \ {last.id} : InTable(id) => FadingOut(id)
        /\ Playing(last.id)
        /\ \A i \in 1..Len(timers) : timers[i].id # last.id

\* C8: updateSettings(id, s) on a voice that is fading out leaves the gain
\* ramp, the pan, the loop flag and the pending teardown as they are.  (The
\* claim also names the remembered fade-out duration; it is left out here, so
\* a step that breaks this formula disturbs the fade that is under way.)
C8_UpdateOnFadingKeepsFade ==
    [][(Called("updateSettings") /\ FadingOut(last'.id))
          => /\ UNCHANGED <<sources, timers>>
             /\ LET n == LookUp(eng, last'.id)
                IN  /\ nodes'[n].ramp = nodes[n].ramp
                    /\ nodes'[n].pan = nodes[n].pan
                    /\ nodes'[n].loop = nodes[n].loop
                    /\ nodes'[n].audio = nodes[n].audio]_vars

\* C9: stop(id) and updateSettings(id, s) for an id that has no voice in the
\* table return normally, create no voice, set no timer and leave the table,
\* the node objects and the context as they are.
C9_UnknownVoiceIsNoOp ==
    [][((Called("stop") \/ Called("updateSettings")) /\ ~InTable(last'.id))
          => /\ last'.branch = "absent"
             /\ UNCHANGED <<sources, nodes, timers, ctx>>]_vars

C9_Witness ==
    /\ last.op \in {"stop", "updateSettings"}
    /\ last.branch = "absent"
    /\ ~InTable(last.id)
    /\ \E id \in Ids : Playing(id)

\* C10: when the output context cannot be made or resumed, or playback cannot
\* start, play(id) for an id without a voice does not throw and registers
\* nothing: table, node objects and timers stay as they are.
C10_PlayWithoutDeviceIsNoOp ==
    [][(Called("play") /\ device # "ok" /\ ~InTable(last'.id))
          => /\ last'.branch # "threw"
             /\ UNCHANGED <<sources, nodes, timers>>]_vars

\* C11: when the selected hotspot is deleted, or its clip is removed, while
\* its voice is Playing, that voice is stopped by the step: it is not Playing
\* any more afterwards.
C11_DeletedHotspotVoiceStops ==
    [][\A id \in Ids :
          ((Called("deleteZone") \/ Called("removeAudio"))
             /\ id = selectedHotspotId /\ Playing(id))
          => ~(Playing(id))']_vars

\* C12: for all polygons A and B of the grid, polygonsOverlap(A, B) equals
\* polygonsOverlap(B, A).
C12_OverlapIsSymmetric ==
    answer # "none" => answer = Answer(polygonsOverlap(poly2, poly1))

\* polygonsOverlap has returned true for two polygons of which only the
\* second has a vertex inside the other and whose edges do not cross
C12_Witness ==
    /\ answer = "true"
    /\ \A i \in 1..Len(poly1) : ~isPointInPolygon(poly1[i], poly2)
    /\ \E j \in 1..Len(poly2) : isPointInPolygon(poly2[j], poly1)
    /\ ~EdgesIntersect(poly1, poly2)

\* C13: polygonsOverlap(a, b) is true exactly when some vertex of a tests
\* inside b, or some vertex of b tests inside a, or some edge of a properly
\* crosses some edge of b (checked for simple polygons).
C13_OverlapIffInsideOrCrossing ==
    (answer # "none" /\ Simple(poly1) /\ Simple(poly2)) =>
        answer = Answer(\/ \E i \in 1..Len(poly1) : isPointInPolygon(poly1[i], poly2)
                        \/ \E j \in 1..Len(poly2) : isPointInPolygon(poly2[j], poly1)
                        \/ EdgesCross(poly1, poly2))

\* C14: for two polygons whose bounding boxes are strictly apart,
\* polygonsOverlap returns false.
C14_SeparatedPolygonsDoNotOverlap ==
    (answer # "none" /\ Separated(poly1, poly2)) => answer = "false"

\* polygonsOverlap has returned for the unit squares (0,0)-(1,1) and (2,2)-(3,3)
C14_Witness ==
    /\ answer = "false"
    /\ poly1 = Rect(0, 0, 1, 1)
    /\ poly2 = Rect(2, 2, 3, 3)
    /\ Separated(poly1, poly2)

\* C15: for a simple polygon and a point off its boundary, isPointInPolygon
\* returns true iff the point lies in the polygon's interior, also when the
\* ray through the point passes through vertices or along a horizontal edge.
C15_RayCastingIsInterior ==
    (answer # "none" /\ Simple(poly1) /\ ~OnBoundary(point, poly1)) =>
        answer = Answer(Interior(point, poly1))

\* isPointInPolygon has returned true for an interior point whose ray to the
\* right passes through a vertex of the polygon
C15_Witness ==
    /\ answer = "true"
    /\ Simple(poly1)
    /\ Interior(point, poly1)
    /\ \E i \in 1..Len(poly1) : poly1[i].y = point.y /\ poly1[i].x > point.x

\* C16: for every triangle that is not flat, isPointInPolygon gives the same
\* answer for each of the triangle's three vertices.
C16_VerticesTreatedAlike ==
    (answer # "none" /\ Len(poly1) = 3 /\ Simple(poly1)
                     /\ \E i \in 1..3 : poly1[i] = point) =>
        \A i \in 1..3 : Answer(isPointInPolygon(poly1[i], poly1)) = answer

\* C17: ending a gesture whose candidate has no more than MinPoints points
\* (so also one with fewer than 3) creates no hotspot, leaves the hotspots as
\* they are, clears the candidate and leaves draw mode; and every hotspot of
\* every reachable document has at least 3 points.
C17_ShortCandidateCreatesNothing ==
    /\ [](\A i \in 1..Len(hotspots) : Len(hotspots[i].points) >= 3)
    /\ [][(Called("stopDrawing") /\ isDrawing /\ Len(currentPoints) <= MinPoints)
            => (hotspots' = hotspots /\ currentPoints' = <<>> /\ ~isDrawing')]_vars

\* a gesture of too few points has just been ended on a document that has a
\* hotspot
C17_Witness ==
    /\ last.op = "stopDrawing"
    /\ last.branch = "short"
    /\ hotspots # <<>>
    /\ ~isDrawing
    /\ currentPoints = <<>>

\* every point of the polygon lies on the same side of every one of its edges
Convex(polygon) ==
    LET n == Len(polygon)
    IN  \/ \A i, k \in 1..n : Orient(polygon[i], polygon[After(i, n)], polygon[k]) >= 0
        \/ \A i, k \in 1..n : Orient(polygon[i], polygon[After(i, n)], polygon[k]) <= 0

\* every point of the polygon lies on one line
Flat(polygon) ==
    \A i, j, k \in 1..Len(polygon) : Orient(polygon[i], polygon[j], polygon[k]) = 0

\* the convex polygon a contains the whole of polygon b, which has an area
Covers(a, b) ==
    /\ Convex(a)
    /\ ~Flat(a)
    /\ ~Flat(b)
    /\ \A k \in 1..Len(b) : Interior(b[k], a) \/ OnBoundary(b[k], a)

\* the line through p and q has polygon a on one side and polygon b on the
\* other (points on the line are on both)
SeparatedBy(p, q, a, b) ==
    /\ p # q
    /\ \/ /\ \A k \in 1..Len(a) : Orient(p, q, a[k]) >= 0
          /\ \A k \in 1..Len(b) : Orient(p, q, b[k]) <= 0
       \/ /\ \A k \in 1..Len(a) : Orient(p, q, a[k]) <= 0
          /\ \A k \in 1..Len(b) : Orient(p, q, b[k]) >= 0

\* the convex polygons a and b share no area: the line of an edge of one of
\* them separates them
ShareNoArea(a, b) ==
    /\ Convex(a)
    /\ Convex(b)
    /\ \/ \E i \in 1..Len(a) : SeparatedBy(a[i], a[After(i, Len(a))], a, b)
       \/ \E i \in 1..Len(b) : SeparatedBy(b[i], b[After(i, Len(b))], a, b)

\* C18: ending a gesture whose candidate overlaps a committed hotspot, here
\* one that fully contains a hotspot or lies fully inside one, creates no
\* hotspot: the hotspots are unchanged, the candidate is cleared and draw mode
\* is left.
C18_OverlappingCandidateCreatesNothing ==
    [][(/\ Called("stopDrawing")
        /\ isDrawing
        /\ Len(currentPoints) > MinPoints
        /\ \E i \in 1..Len(hotspots) :
               \/ Covers(currentPoints, hotspots[i].points)
               \/ Covers(hotspots[i].points, currentPoints))
          => (hotspots' = hotspots /\ currentPoints' = <<>> /\ ~isDrawing')]_vars

\* C19: in every document reached from the empty one by gestures, deletions
\* and edits, polygonsOverlap is false for every two distinct hotspots.
C19_HotspotsPairwiseDisjoint ==
    \A i, j \in 1..Len(hotspots) :
        i # j => ~polygonsOverlap(hotspots[i].points, hotspots[j].points)

\* two hotspots, the older of them drawn after a deletion and given a clip
C19_Witness ==
    /\ Len(hotspots) = 2
    /\ hotspots[1].id = "b"
    /\ hotspots[1].audioUrl = "url"
    /\ ~isDrawing

\* an audio element of id sounds and nothing is fading it out
SoundsUnfaded(id) ==
    \E n \in DOMAIN nodes :
        /\ nodes[n].id = id
        /\ nodes[n].audio = "playing"
        /\ \A i \in 1..Len(timers) : timers[i].node # n

\* C20: in the player, when the pointer leaves the hotspot that is current
\* and sounding, afterwards no hotspot is current and the hotspot's voice is
\* not Playing: it is fading out or gone, whether its clip loops or not.
C20_LeaveStopsTheHotspot ==
    [][\A id \in Ids :
          (Called("leave") /\ last'.id = id /\ playingId = id /\ SoundsUnfaded(id))
              => (playingId' = NoId /\ ~Playing(id)' /\ ~SoundsUnfaded(id)')]_vars

\* C21: when a touch move resolves to a hotspot other than the current one,
\* play is issued for it (it has a voice afterwards) and it becomes the
\* current id; when it resolves to no hotspot while a hotspot is current,
\* stop is issued for that hotspot (its voice is not Playing afterwards) and
\* the current id becomes none.
C21_TouchDragFollowsTheFinger ==
    [][\A id \in Ids :
          /\ (Called("touchMove") /\ last'.id = id /\ playingId # id)
                => (playingId' = id /\ InTable(id)')
          /\ (Called("touchMove") /\ last'.id = NoId /\ playingId = id)
                => (playingId' = NoId /\ ~Playing(id)')]_vars

\* C22: ending a gesture whose candidate has more than 5 points and overlaps
\* no committed hotspot (shares no area with any) appends one hotspot with the
\* candidate's points, no clip and the settings volume 1, pan 0, no loop,
\* fades of 0.5 s; the hotspots before it are unchanged and the new hotspot
\* is the selected one.
C22_DisjointCandidateIsCommitted ==
    [][(/\ Called("stopDrawing")
        /\ isDrawing
        /\ Len(currentPoints) > 5
        /\ \A i \in 1..Len(hotspots) : ShareNoArea(currentPoints, hotspots[i].points))
          => (/\ Len(hotspots') = Len(hotspots) + 1
              /\ SubSeq(hotspots', 1, Len(hotspots)) = hotspots
              /\ hotspots'[Len(hotspots')].points = currentPoints
              /\ hotspots'[Len(hotspots')].audioUrl = "null"
              /\ hotspots'[Len(hotspots')].settings =
                     [volume |-> 10, pan |-> 0, loop |-> FALSE,
                      fadeIn |-> 500, fadeOut |-> 500]
              /\ selectedHotspotId' = hotspots'[Len(hotspots')].id)]_vars

\* C23: stop(id) on a Playing voice ramps its gain to zero over the fade-out
\* duration remembered for that voice and schedules its teardown 100 ms after
\* the end of the ramp, for every remembered duration, 0 included.
C23_StopUsesTheVoicesOwnFadeOut ==
    [][\A id \in Ids :
          (Called("stop") /\ last'.id = id /\ Playing(id))
              => LET n == LookUp(eng, id)
                     fadeOut == nodes[n].fadeOutDuration
                 IN  /\ nodes'[n].ramp = [to |-> 0, dur |-> fadeOut]
                     /\ \E i \in 1..Len(timers') :
                            /\ timers'[i].node = n
                            /\ timers'[i].left = fadeOut + 100]_vars

\* the step is a hotspot event of the player: enter or touch start, leave,
\* touch move
HitTestEvent == last'.op \in {"enter", "leave", "touchMove", "touchOutside"}

\* what the engine holds for id: its table entry, its node and its timers
Held(id) ==
    [ node   |-> LookUp(eng, id),
      voice  |-> IF InTable(id) THEN <<Voice(id)>> ELSE <<>>,
      timers |-> SelectSeq(timers, LAMBDA t : t.id = id) ]

\* C24: starting the session gives every global channel that has a clip a
\* voice, and no hotspot event (enter, leave, touch start, touch move) changes
\* anything the engine holds for a global channel: its voice is not stopped,
\* faded or revived.
C24_ChannelsPlayThroughHotspotEvents ==
    /\ [][Called("start") =>
            \A k \in 1..Len(globalChannels) :
                globalChannels[k].audioUrl # "null"
                    => (InTable(globalChannels[k].id) /\ Playing(globalChannels[k].id))']_vars
    /\ [][HitTestEvent =>
            \A k \in 1..Len(globalChannels) :
                Held(globalChannels[k].id)' = Held(globalChannels[k].id)]_vars

\* the pointer has left a sounding hotspot while the channel's voice plays on
C24_Witness ==
    /\ last.op = "leave"
    /\ last.branch = "fade"
    /\ Playing("g")
    /\ FadingOut(last.id)

\* C25: when a setting of the selected hotspot is edited in the settings
\* panel while the hotspot's voice is Playing, the voice takes the edited
\* settings: afterwards its gain target, pan, loop flag and remembered fade-out
\* duration are those of the hotspot, and it is the same voice, still Playing.
C25_EditReachesThePlayingVoice ==
    [][\A id \in Ids :
          (Called("editSetting") /\ last'.id = id /\ Playing(id))
              => LET h == hotspots'[SelectedIndex]
                 IN  /\ Playing(id)'
                     /\ LookUp(eng, id)' = LookUp(eng, id)
                     /\ Voice(id)'.ramp.to = h.settings.volume
                     /\ Voice(id)'.pan = h.settings.pan
                     /\ Voice(id)'.loop = h.settings.loop
                     /\ Voice(id)'.fadeOutDuration = h.settings.fadeOut]_vars

\* the table registers node n under the id it was created for
Registered(n) ==
    \E i \in 1..Len(sources) : sources[i].node = n /\ sources[i].id = nodes[n].id

\* C26: a teardown timer removes from the table only the voice instance whose
\* stop or stopAll scheduled it, never the entry of a voice created since for
\* the same id; so every audio instance that still plays is registered under
\* its id, where stop(id) finds it.
C26_TeardownRemovesOnlyItsOwnVoice ==
    /\ [][Called("env") /\ last'.branch = "timer" =>
            \A i \in 1..Len(sources) :
                sources[i].node # timers[CHOOSE j \in Due : \A k \in Due : j <= k].node
                    => \E m \in 1..Len(sources') : sources'[m] = sources[i]]_vars
    /\ [](\A n \in DOMAIN nodes : nodes[n].audio = "playing" => Registered(n))

\* the pending teardowns of the voice of id
Teardowns(id) == { i \in 1..Len(timers) : timers[i].node = LookUp(eng, id) }

\* C27: every voice has at most one pending teardown timer, and its fading
\* marker fadeOutTimer is set exactly when a teardown is pending for it, also
\* after stopAll and after stopAll is called again before the teardown fires.
C27_OneTeardownAndMarkerAgree ==
    \A id \in Ids :
        InTable(id) =>
            /\ Cardinality(Teardowns(id)) <= 1
            /\ Marked(id) <=> Teardowns(id) # {}

\* C28: in the player, once started, the current id and the engine agree:
\* while it is a hotspot, the engine holds a voice for that hotspot that is
\* not fading out; while it is none, no hotspot's voice is Playing.
C28_CurrentIdAgreesWithEngine ==
    hasStarted =>
        /\ playingId # NoId => (InTable(playingId) /\ ~FadingOut(playingId))
        /\ playingId = NoId =>
               \A i \in 1..Len(hotspots) : ~Playing(hotspots[i].id)

\* the ids of the project's channels
ChannelIds == { globalChannels[k].id : k \in 1..Len(globalChannels) }

\* the preview voice of channel c exists and is not fading out
PreviewLive(c) == InTable(PreviewId(c)) /\ ~FadingOut(PreviewId(c))

\* the recorded preview and the engine agree, and one preview plays at most
PreviewAgrees ==
    /\ \A c \in ChannelIds : previewingChannelId = c <=> PreviewLive(c)
    /\ Cardinality({ c \in ChannelIds : Playing(PreviewId(c)) }) <= 1

\* the auto-stop leaves no preview playing; a toggle click on a channel that
\* has a clip and no sounding preview voice starts its preview
PreviewSteps ==
    \A k \in 1..Len(globalChannels) :
        LET c == globalChannels[k].id
        IN  /\ (Called("previewTimeout") /\ last'.id = c) => ~Playing(PreviewId(c))'
            /\ ( /\ Called("toggle") /\ last'.id = c
                 /\ globalChannels[k].audioUrl # "null"
                 /\ LiveVoices(PreviewId(c)) = {} )
                    => Playing(PreviewId(c))'

\* C29: in the editor, previewingChannelId = c exactly when the voice preview-c
\* exists and is not fading out; at most one preview voice is Playing; the
\* auto-stop stops the preview; this also holds across the stopAll() of a draw
\* gesture or a zone click, so one toggle click on a silent channel starts its
\* preview.
C29_PreviewMarkerAgreesWithEngine == []PreviewAgrees /\ [][PreviewSteps]_vars

\* the auto-save is idle: no debounce timer is pending and no call is under way
SaveIdle == ~saveTimer.on /\ inflight = <<>>

\* C30: while signed in, every change to the in-memory project list is
\* persisted by the debounced auto-save: once the list is loaded, the timer
\* has run out and the save calls have completed, the stored list is the
\* in-memory list as saveProjects stores it, also when the change is the
\* deletion of the last remaining project.
C30_ChangesArePersisted ==
    (~isLoadingProjects /\ SaveIdle) => stored = Persist(projects)

====
